---- MODULE Spec2Model ----
(***************************************************************************)
(* Model of the ReAct decision engine run_structured_react_engine of       *)
(* src/src/day3-.../react_agent_app.py (lines 253-337).                     *)
(*                                                                         *)
(* Python strings are modelled as sequences of atoms (an atom stands for a *)
(* literal fragment of an f-string or for an opaque piece of text), so     *)
(* concatenation is \o and "s contains t" is a contiguous sub-sequence.    *)
(* The literal fragments are ASCII renderings of the Korean literals of    *)
(* the source; each is given with the line of the literal it stands for.   *)
(* Python values (tool_input is typed Any) carry their type: a str or a    *)
(* structured (dict/list) value.  Streamlit sidebar writes have no effect  *)
(* on the state of the run and are left out.  "Raises" means raising an    *)
(* Exception subclass, which is what `except Exception` intercepts.        *)
(***************************************************************************)
EXTENDS Integers, Sequences, FiniteSets, TLC

(***************************************************************************)
(* Bounds of the model.                                                    *)
(***************************************************************************)
\* Number of iterations of one run in which the environment may depart
\* from the baseline (a decision other than BaselineResponse that keeps the
\* loop going, or a tool invocation that raises).
MaxDeviations == 2

\* Number of runs (user turns) of one UI session.
MaxTurns == 2

\* Requests whose handler is run while the HTTP servers are observed.
MaxHandled == 2

\* Research materials created, and modifications of one material, while the
\* storage server is observed.
MaxMaterials == 1
MaxUpdates == 1

(***************************************************************************)
(* Python values and strings.                                              *)
(***************************************************************************)
StrV(s) == [type |-> "str", val |-> s]
ObjV(s) == [type |-> "dict", val |-> s]
NoneV == [type |-> "none", val |-> <<>>]

\* str(v) / f"{v}": a str is itself, a structured value is its repr.
PyStr(v) ==
  IF v.type = "str" THEN v.val
  ELSE IF v.type = "dict" THEN <<"{'input': '">> \o v.val \o <<"'}">>
  ELSE <<"None">>

\* JSON encoding of a value, as pydantic's model_dump_json does.
JsonOf(v) ==
  IF v.type = "str" THEN <<"\"">> \o v.val \o <<"\"">>
  ELSE IF v.type = "dict" THEN <<"{\"input\":\"">> \o v.val \o <<"\"}">>
  ELSE <<"null">>

\* t occurs in s as a contiguous sub-sequence (Python `t in s`).
Contains(s, t) ==
  \E k \in 0..(Len(s) - Len(t)) : \A j \in 1..Len(t) : s[k + j] = t[j]

RECURSIVE Join(_, _)
\* sep.join(parts) for a sequence of strings.
Join(sep, parts) ==
  IF Len(parts) = 0 THEN <<>>
  ELSE IF Len(parts) = 1 THEN parts[1]
  ELSE parts[1] \o sep \o Join(sep, Tail(parts))

(***************************************************************************)
(* The Action response model (lines 253-266).                              *)
(***************************************************************************)
FINAL_ANSWER_TOOL == "Final Answer"
ASK_USER_TOOL == "ask_user_tool"

\* The Literal of Action.tool.
\* Variant: the Literal accepts one more name than the tools that exist.
ActionToolNames_Extra ==
  { "tavily_search_results_json", "calculator_tool", "wolfram_alpha_tool",
    "blog_template_tool", "ask_user_tool", "create_study_plan_tool",
    "unknown_tool", "Final Answer" }

\* lines 256-264: the values of the Literal of Action.tool
ActionToolNames ==
  { "tavily_search_results_json", "calculator_tool", "wolfram_alpha_tool",
    "blog_template_tool", "ask_user_tool", "create_study_plan_tool",
    "Final Answer" }

\* pydantic validation of a raw response against Action: thought is a
\* required str, tool is one of the Literal values, tool_input is Any.
ActionValidates(raw) ==
  /\ raw.thought.type = "str"
  /\ raw.tool \in ActionToolNames

\* Action.model_dump_json()
ModelDumpJson(a) ==
  <<"{\"thought\":">> \o JsonOf(a.thought) \o <<",\"tool\":\"", a.tool, "\",\"tool_input\":">>
    \o JsonOf(a.tool_input) \o <<"}">>

(***************************************************************************)
(* Tools (lines 49-203).  A tool is a name and an implementation.          *)
(***************************************************************************)
Tool(n, impl) == [name |-> n, impl |-> impl]

\* The list returned by get_tools().
get_tools ==
  << Tool("tavily_search_results_json", "search"),
     Tool("calculator_tool", "calc"),
     Tool("wolfram_alpha_tool", "wolfram"),
     Tool("blog_template_tool", "blog"),
     Tool("ask_user_tool", "ask"),
     Tool("create_study_plan_tool", "plan") >>

\* A reduced tool list, as a caller or a test may pass for _tools.
ReducedTools ==
  << Tool("calculator_tool", "calc"), Tool("ask_user_tool", "ask") >>

ToolLists == { get_tools, ReducedTools }

\* A tool list in which two tools share a name.
DuplicateTools ==
  << Tool("calculator_tool", "calc"), Tool("calculator_tool", "calc2"),
     Tool("ask_user_tool", "ask") >>

\* tool_map = {tool.name: tool for tool in _tools}: a later tool of the
\* same name replaces an earlier one.
ToolMapOf(ts) ==
  [ n \in { ts[k].name : k \in 1..Len(ts) } |->
      ts[ CHOOSE k \in 1..Len(ts) :
            /\ ts[k].name = n
            /\ \A j \in 1..Len(ts) : ts[j].name = n => j <= k ] ]

\* What a tool's invoke returns when it does not raise.
ToolReturn(t, input) ==
  IF t.impl = "calc" THEN StrV(<<"4">>)
  ELSE IF t.impl = "search" THEN ObjV(<<"hit">>)
  ELSE IF t.impl = "ask" THEN StrV(<<"ask_user: ">> \o PyStr(input))
  ELSE StrV(<<t.impl, "-result">>)

\* The record the tool mocks keep of one invocation: the loop pass it was
\* made in, the tool, the input, and whether it raised (and with what).
ToolCall(k, t, input, raised, e) ==
  [iter |-> k, tool |-> t, input |-> input, raised |-> raised, detail |-> e]

\* Descriptions of the exceptions a tool's invoke may raise.
ToolErrors == { <<"boom">> }

(***************************************************************************)
(* The completion capability (instructor client), as the environment.      *)
(***************************************************************************)
Raw(th, tl, inp) == [thought |-> th, tool |-> tl, tool_input |-> inp]

BaselineResponse == Raw(StrV(<<"t-calc">>), "calculator_tool", StrV(<<"2+2">>))

\* Raw responses the completion capability may produce.
Responses ==
  { BaselineResponse,
    Raw(StrV(<<"t-search">>), "tavily_search_results_json", ObjV(<<"q">>)),
    Raw(StrV(<<"t-final">>), "Final Answer", StrV(<<"answer">>)),
    Raw(StrV(<<"t-final">>), "Final Answer", ObjV(<<"answer">>)),
    Raw(StrV(<<"t-ask">>), "ask_user_tool", StrV(<<"which?">>)),
    Raw(StrV(<<"t-ask">>), "ask_user_tool", ObjV(<<"which?">>)),
    Raw(StrV(<<"t-bad">>), "unknown_tool", StrV(<<"x">>)),
    Raw(NoneV, "calculator_tool", StrV(<<"2+2">>)) }

\* Descriptions of the exceptions the completion call may raise itself.
CompletionErrors == { <<"api down">> }

\* Description of the validation error raised for a raw response.
ValidationError(raw) == <<"validation error for Action: ", raw.tool>>

(***************************************************************************)
(* Inputs of a run.                                                        *)
(***************************************************************************)
Queries == { <<"2+2?">> }
\* chat_history: no prior turn, or two prior turns.
Histories ==
  { <<>>,
    << <<StrV(<<"hi">>), StrV(<<"hello">>)>>,
       <<StrV(<<"more">>), StrV(<<"sure">>)>> >> }

\* The query of a later run of a session, or of a second run that executes
\* concurrently with the first.
OtherQuery == <<"3+3?">>

\* lines 361, 377: the entries of st.session_state.messages
UserMessage(q) == [role |-> "user", content |-> StrV(q)]
AssistantMessage(response) == [role |-> "assistant", content |-> response]

\* The messages of a session whose chat_history is h (two per past turn).
MessagesOf(h) ==
  [ k \in 1..(2 * Len(h)) |->
      IF k % 2 = 1 THEN [role |-> "user", content |-> h[(k + 1) \div 2][1]]
      ELSE AssistantMessage(h[k \div 2][2]) ]

(***************************************************************************)
(* Literal strings of the engine.                                          *)
(***************************************************************************)
MAX_ITERS == 10

\* line 309
AskUserMessage(question) ==
  <<"[question]: ">> \o PyStr(question) \o <<"\n\nplease answer the question above">>
\* line 325
ToolErrorObservation(e) == <<"Tool execution error: ">> \o e
\* line 327
ToolNotFoundObservation(name) == <<"error: '", name, "' Tool not found.">>
\* line 335
EngineErrorMessage(e) == <<"ReAct engine error: ">> \o e
\* line 337
MaxItersMessage == <<"max iterations reached, stopping.">>

\* line 273
HistoryStr(chat_history) ==
  Join(<<"\n">>,
       [ k \in 1..Len(chat_history) |->
           <<"Human: ">> \o PyStr(chat_history[k][1]) \o <<"\nAssistant: ">>
             \o PyStr(chat_history[k][2]) ])

\* Variant: the template is filled in without the accumulated steps.
FormatPrompt_NoSteps(q, hist, steps) ==
  <<"<template> chat_history: ">> \o hist \o <<" intermediate_steps: ">>
    \o <<" user_query: ">> \o q

\* lines 283-285: the template with its three variables filled in.
FormatPrompt(q, hist, steps) ==
  <<"<template> chat_history: ">> \o hist \o <<" intermediate_steps: ">> \o steps
    \o <<" user_query: ">> \o q

\* lines 330-332: the text appended to intermediate_steps_str.
StepText(a, obs) ==
  <<"\nThought: ">> \o PyStr(a.thought) \o <<"\nAction: ">> \o ModelDumpJson(a)
    \o <<"\nObservation: ">> \o PyStr(obs)

\* Variants of the loop bound: one pass too many, one pass too few.
LoopContinues_OneMore(k) == k <= MAX_ITERS
LoopContinues_OneLess(k) == k < MAX_ITERS - 1

\* line 277: for i in range(10)
LoopContinues(k) == k < MAX_ITERS

(***************************************************************************)
(* State.                                                                  *)
(***************************************************************************)
VARIABLES
  pc,                     \* position in run_structured_react_engine
  user_query,             \* parameter
  chat_history,           \* parameter (list of (user, agent) pairs)
  tools,                  \* parameter _tools
  tool_map,               \* line 271
  history_str,            \* line 273
  intermediate_steps_str, \* line 274, 330
  i,                      \* loop variable: number of loop passes completed
  prompt,                 \* line 283
  action_obj,             \* line 294 (response_object)
  observation,            \* lines 320-327
  result,                 \* the value returned by the run
  outcome,                \* which return statement ended the run
  llm_calls,              \* number of calls of the completion capability
  decisions,              \* the Action objects the capability returned, in order
  tool_calls,             \* the tool invocations performed (ToolCall), in order
  observed,               \* the observations produced, in order
  deviations,             \* iterations that departed from the baseline
  messages,               \* st.session_state.messages (lines 41-42)
  parked,                 \* the frame of a concurrent run that is not executing
  running,                \* which of the concurrent runs is executing
  materials_store,        \* research_storage_mcp.py line 72
  materials_file,         \* the content of MATERIALS_FILE (line 44)
  storage_reply,          \* what the last storage operation returned
  deleted,                \* ids deleted since the storage server started
  uuids,                  \* number of ids uuid.uuid4() has handed out
  disk,                   \* whether MATERIALS_FILE can be written
  master_api_key,         \* os.environ.get("MASTER_API_KEY")
  langfuse_client,        \* a2a_blog_system.py line 18
  http_request,           \* the HTTP request being served
  http_response,          \* the response to it
  handled,                \* the requests whose endpoint handler was run
  a2a_request,            \* context.request of the A2A executor being run
  a2a_reply               \* what execute returned (or that it raised)

vars == << pc, user_query, chat_history, tools, tool_map, history_str,
           intermediate_steps_str, i, prompt, action_obj, observation, result,
           outcome, llm_calls, decisions, tool_calls, observed, deviations,
           messages, parked, running, materials_store, materials_file,
           storage_reply, deleted, uuids, disk, master_api_key, langfuse_client,
           http_request, http_response, handled, a2a_request, a2a_reply >>

\* The other programs of the repository: the research storage server, the
\* two HTTP servers of day 5 and the two A2A executors.
storage == << materials_store, materials_file, storage_reply, deleted, uuids, disk >>
api == << master_api_key, langfuse_client, http_request, http_response, handled >>
a2a == << a2a_request, a2a_reply >>
services == << storage, api, a2a >>

\* State of the caller and of the other run, which no step of a run touches.
caller == << messages, parked, running, services >>
inputs == << user_query, chat_history, tools, caller >>
locals == << tool_map, history_str, intermediate_steps_str, i, prompt,
             action_obj, observation >>
mocks == << llm_calls, decisions, tool_calls, observed, deviations >>

\* No concurrent run.
NoFrame == [pc |-> "none"]

\* The run's own state, as one record.
CurrentFrame ==
  [ pc |-> pc, user_query |-> user_query, chat_history |-> chat_history,
    tool_map |-> tool_map, history_str |-> history_str,
    intermediate_steps_str |-> intermediate_steps_str, i |-> i, prompt |-> prompt,
    action_obj |-> action_obj, observation |-> observation, result |-> result,
    outcome |-> outcome, llm_calls |-> llm_calls, decisions |-> decisions,
    tool_calls |-> tool_calls, observed |-> observed, deviations |-> deviations ]

\* The frame of a run that has just been called with query q and history h
\* and that may depart from the baseline MaxDeviations - d times.
CalledFrame(q, h, d) ==
  [ pc |-> "start", user_query |-> q, chat_history |-> h,
    tool_map |-> << >>, history_str |-> <<>>,
    intermediate_steps_str |-> <<>>, i |-> 0, prompt |-> <<>>,
    action_obj |-> NoneV, observation |-> NoneV, result |-> NoneV,
    outcome |-> "none", llm_calls |-> 0, decisions |-> <<>>,
    tool_calls |-> <<>>, observed |-> <<>>, deviations |-> d ]

\* The run's own state is the frame f.
FrameIs(f) ==
  /\ pc = f.pc
  /\ user_query = f.user_query
  /\ chat_history = f.chat_history
  /\ tool_map = f.tool_map
  /\ history_str = f.history_str
  /\ intermediate_steps_str = f.intermediate_steps_str
  /\ i = f.i
  /\ prompt = f.prompt
  /\ action_obj = f.action_obj
  /\ observation = f.observation
  /\ result = f.result
  /\ outcome = f.outcome
  /\ llm_calls = f.llm_calls
  /\ decisions = f.decisions
  /\ tool_calls = f.tool_calls
  /\ observed = f.observed
  /\ deviations = f.deviations

\* A file that does not exist.
AbsentFile == [kind |-> "absent", data |-> << >>]

\* No storage operation has returned yet.
NoStorageReply == [op |-> "none", id |-> 0, error |-> FALSE, text |-> <<>>]

\* No request is being served.
NoRequest == [kind |-> "none"]
NoResponse == [kind |-> "none"]

\* The other programs are not running.
StorageIdle ==
  /\ materials_store = << >>
  /\ materials_file = AbsentFile
  /\ storage_reply = NoStorageReply
  /\ deleted = {}
  /\ uuids = 0
  /\ disk = "ok"

ApiIdle ==
  /\ master_api_key = NoneV
  /\ langfuse_client = FALSE
  /\ http_request = NoRequest
  /\ http_response = NoResponse
  /\ handled = {}

A2AIdle ==
  /\ a2a_request = NoRequest
  /\ a2a_reply = NoResponse

ServicesIdle == StorageIdle /\ ApiIdle /\ A2AIdle

Init ==
  /\ ServicesIdle
  /\ pc = "start"
  /\ user_query \in Queries
  /\ chat_history \in Histories
  /\ tools \in ToolLists
  /\ messages = Append(MessagesOf(chat_history), UserMessage(user_query))
  /\ parked = NoFrame
  /\ running = 1
  /\ tool_map = << >>
  /\ history_str = <<>>
  /\ intermediate_steps_str = <<>>
  /\ i = 0
  /\ prompt = <<>>
  /\ action_obj = NoneV
  /\ observation = NoneV
  /\ result = NoneV
  /\ outcome = "none"
  /\ llm_calls = 0
  /\ decisions = <<>>
  /\ tool_calls = <<>>
  /\ observed = <<>>
  /\ deviations = 0

\* Variant: the value is stored but the function does not stop.
Return_NoStop(v, o) ==
  /\ result' = v
  /\ outcome' = o
  /\ pc' = "loop"

\* return v from the run, at the return statement named o
Return(v, o) ==
  /\ result' = v
  /\ outcome' = o
  /\ pc' = "done"


\* Variant: the call keeps the steps text and the counter it finds.
Call_KeepsTrace ==
  /\ pc = "start"
  /\ tool_map' = ToolMapOf(tools)
  /\ history_str' = HistoryStr(chat_history)
  /\ pc' = "loop"
  /\ UNCHANGED << inputs, intermediate_steps_str, i, prompt, action_obj, observation,
                  result, outcome, mocks >>

\* Variant: rendering the prior turns empties the caller's list.
Call_ConsumesHistory ==
  /\ pc = "start"
  /\ tool_map' = ToolMapOf(tools)
  /\ history_str' = HistoryStr(chat_history)
  /\ chat_history' = <<>>
  /\ intermediate_steps_str' = <<>>
  /\ i' = 0
  /\ pc' = "loop"
  /\ UNCHANGED << user_query, tools, caller, prompt, action_obj, observation, result,
                  outcome, mocks >>

\* lines 270-274
Call ==
  /\ pc = "start"
  /\ tool_map' = ToolMapOf(tools)
  /\ history_str' = HistoryStr(chat_history)
  /\ intermediate_steps_str' = <<>>
  /\ i' = 0
  /\ pc' = "loop"
  /\ UNCHANGED << inputs, prompt, action_obj, observation, result, outcome, mocks >>

\* lines 277-285: next pass of the loop, rendering the prompt
LoopNext ==
  /\ pc = "loop"
  /\ LoopContinues(i)
  /\ prompt' = FormatPrompt(user_query, history_str, intermediate_steps_str)
  /\ pc' = "request"
  /\ UNCHANGED << inputs, tool_map, history_str, intermediate_steps_str, i,
                  action_obj, observation, result, outcome, mocks >>

\* line 337: the loop is exhausted
LoopExhausted ==
  /\ pc = "loop"
  /\ ~LoopContinues(i)
  /\ Return(StrV(MaxItersMessage), "MAX_ITERS")
  /\ UNCHANGED << inputs, locals, mocks >>

\* lines 334-335: except Exception as e
EngineError(e) == Return(StrV(EngineErrorMessage(e)), "ENGINE_ERROR")

\* A response keeps the loop going (it is neither terminal nor invalid).
KeepsLooping(raw) ==
  /\ ActionValidates(raw)
  /\ raw.tool # FINAL_ANSWER_TOOL
  /\ raw.tool # ASK_USER_TOOL

\* lines 289-294: the completion call returns a response that validates
CompletionReturns ==
  /\ pc = "request"
  /\ \E raw \in Responses :
       /\ ActionValidates(raw)
       /\ (KeepsLooping(raw) /\ raw # BaselineResponse) => deviations < MaxDeviations
       /\ deviations' = IF KeepsLooping(raw) /\ raw # BaselineResponse
                        THEN deviations + 1 ELSE deviations
       /\ action_obj' = raw
       /\ decisions' = Append(decisions, raw)
  /\ llm_calls' = llm_calls + 1
  /\ pc' = "dispatch"
  /\ UNCHANGED << inputs, tool_map, history_str, intermediate_steps_str, i, prompt,
                  observation, result, outcome, tool_calls, observed >>

\* Variant: a response that fails validation is asked for again.
CompletionInvalid_Retry ==
  /\ pc = "request"
  /\ \E raw \in Responses : ~ActionValidates(raw)
  /\ llm_calls' = llm_calls + 1
  /\ pc' = "request"
  /\ UNCHANGED << inputs, locals, result, outcome, decisions, tool_calls, observed,
                  deviations >>

\* lines 289-291, 334-335: the response fails validation against Action
CompletionInvalid ==
  /\ pc = "request"
  /\ \E raw \in Responses :
       /\ ~ActionValidates(raw)
       /\ EngineError(ValidationError(raw))
  /\ llm_calls' = llm_calls + 1
  /\ UNCHANGED << inputs, locals, decisions, tool_calls, observed, deviations >>

\* lines 289-291, 334-335: the completion call raises
CompletionRaises ==
  /\ pc = "request"
  /\ \E e \in CompletionErrors : EngineError(e)
  /\ llm_calls' = llm_calls + 1
  /\ UNCHANGED << inputs, locals, decisions, tool_calls, observed, deviations >>

\* Variant: the final answer returns the thought instead of tool_input.
DispatchFinalAnswer_ReturnsThought ==
  /\ pc = "dispatch"
  /\ action_obj.tool = FINAL_ANSWER_TOOL
  /\ Return(action_obj.thought, "FINAL_ANSWER")
  /\ UNCHANGED << inputs, locals, mocks >>

\* Variant: a final answer in the last pass is reported as exhaustion.
DispatchFinalAnswer_LastPassExhausts ==
  /\ pc = "dispatch"
  /\ action_obj.tool = FINAL_ANSWER_TOOL
  /\ IF i = MAX_ITERS - 1
     THEN Return(StrV(MaxItersMessage), "MAX_ITERS")
     ELSE Return(action_obj.tool_input, "FINAL_ANSWER")
  /\ UNCHANGED << inputs, locals, mocks >>

\* lines 302-303
DispatchFinalAnswer ==
  /\ pc = "dispatch"
  /\ action_obj.tool = FINAL_ANSWER_TOOL
  /\ Return(action_obj.tool_input, "FINAL_ANSWER")
  /\ UNCHANGED << inputs, locals, mocks >>

\* Variant: no special case for ask_user_tool, it is dispatched as a tool.
DispatchAskUser_AsTool ==
  /\ pc = "dispatch"
  /\ action_obj.tool # FINAL_ANSWER_TOOL
  /\ action_obj.tool = ASK_USER_TOOL
  /\ action_obj.tool \in DOMAIN tool_map
  /\ pc' = "invoke"
  /\ UNCHANGED << inputs, locals, result, outcome, mocks >>

\* lines 306-309
DispatchAskUser ==
  /\ pc = "dispatch"
  /\ action_obj.tool # FINAL_ANSWER_TOOL
  /\ action_obj.tool = ASK_USER_TOOL
  /\ Return(StrV(AskUserMessage(action_obj.tool_input)), "AWAITING_USER")
  /\ UNCHANGED << inputs, locals, mocks >>

\* Variant: the lookup itself invokes the tool it finds.
DispatchTool_Invokes ==
  /\ pc = "dispatch"
  /\ action_obj.tool # FINAL_ANSWER_TOOL
  /\ action_obj.tool # ASK_USER_TOOL
  /\ action_obj.tool \in DOMAIN tool_map
  /\ tool_calls' = Append(tool_calls,
       ToolCall(i, tool_map[action_obj.tool], action_obj.tool_input, FALSE, <<>>))
  /\ pc' = "invoke"
  /\ UNCHANGED << inputs, locals, result, outcome, llm_calls, decisions, observed,
                  deviations >>

\* Variant: every registered tool is dispatched, ask_user_tool included.
DispatchTool_AnyRegistered ==
  /\ pc = "dispatch"
  /\ action_obj.tool # FINAL_ANSWER_TOOL
  /\ action_obj.tool \in DOMAIN tool_map
  /\ pc' = "invoke"
  /\ UNCHANGED << inputs, locals, result, outcome, mocks >>

\* lines 312-314
DispatchTool ==
  /\ pc = "dispatch"
  /\ action_obj.tool # FINAL_ANSWER_TOOL
  /\ action_obj.tool # ASK_USER_TOOL
  /\ action_obj.tool \in DOMAIN tool_map
  /\ pc' = "invoke"
  /\ UNCHANGED << inputs, locals, result, outcome, mocks >>

\* Variant: no membership test, tool_map[name] raises KeyError, which the
\* outer handler turns into the engine error.
DispatchNotFound_KeyError ==
  /\ pc = "dispatch"
  /\ action_obj.tool # FINAL_ANSWER_TOOL
  /\ action_obj.tool # ASK_USER_TOOL
  /\ action_obj.tool \notin DOMAIN tool_map
  /\ EngineError(<<"KeyError: ", action_obj.tool>>)
  /\ UNCHANGED << inputs, locals, mocks >>

\* lines 326-327
DispatchNotFound ==
  /\ pc = "dispatch"
  /\ action_obj.tool # FINAL_ANSWER_TOOL
  /\ action_obj.tool # ASK_USER_TOOL
  /\ action_obj.tool \notin DOMAIN tool_map
  /\ observation' = StrV(ToolNotFoundObservation(action_obj.tool))
  /\ observed' = Append(observed, observation')
  /\ pc' = "record"
  /\ UNCHANGED << inputs, tool_map, history_str, intermediate_steps_str, i, prompt,
                  action_obj, result, outcome, llm_calls, decisions, tool_calls,
                  deviations >>

\* Variant: the tool is invoked a second time in the same pass.
InvokeReturns_Twice ==
  /\ pc = "invoke"
  /\ tool_calls' = Append(tool_calls,
       ToolCall(i, tool_map[action_obj.tool], action_obj.tool_input, FALSE, <<>>))
  /\ observation' = ToolReturn(tool_map[action_obj.tool], action_obj.tool_input)
  /\ observed' = IF \E n \in 1..Len(tool_calls) : tool_calls[n].iter = i
                 THEN Append(observed, observation') ELSE observed
  /\ pc' = IF \E n \in 1..Len(tool_calls) : tool_calls[n].iter = i
           THEN "record" ELSE "invoke"
  /\ UNCHANGED << inputs, tool_map, history_str, intermediate_steps_str, i, prompt,
                  action_obj, result, outcome, llm_calls, decisions, deviations >>

\* Variant: the tool is invoked with str(tool_input).
InvokeReturns_Stringified ==
  /\ pc = "invoke"
  /\ tool_calls' = Append(tool_calls,
       ToolCall(i, tool_map[action_obj.tool], StrV(PyStr(action_obj.tool_input)),
                FALSE, <<>>))
  /\ observation' = ToolReturn(tool_map[action_obj.tool], action_obj.tool_input)
  /\ observed' = Append(observed, observation')
  /\ pc' = "record"
  /\ UNCHANGED << inputs, tool_map, history_str, intermediate_steps_str, i, prompt,
                  action_obj, result, outcome, llm_calls, decisions, deviations >>

\* line 320: tool_to_use.invoke(tool_input) returns
InvokeReturns ==
  /\ pc = "invoke"
  /\ tool_calls' = Append(tool_calls,
       ToolCall(i, tool_map[action_obj.tool], action_obj.tool_input, FALSE, <<>>))
  /\ observation' = ToolReturn(tool_map[action_obj.tool], action_obj.tool_input)
  /\ observed' = Append(observed, observation')
  /\ pc' = "record"
  /\ UNCHANGED << inputs, tool_map, history_str, intermediate_steps_str, i, prompt,
                  action_obj, result, outcome, llm_calls, decisions, deviations >>

\* Variant: no inner try, the tool's exception reaches the outer handler.
InvokeRaises_Propagates ==
  /\ pc = "invoke"
  /\ deviations < MaxDeviations
  /\ deviations' = deviations + 1
  /\ \E e \in ToolErrors :
       /\ tool_calls' = Append(tool_calls,
            ToolCall(i, tool_map[action_obj.tool], action_obj.tool_input, TRUE, e))
       /\ EngineError(e)
  /\ UNCHANGED << inputs, locals, llm_calls, decisions, observed >>

\* lines 320, 324-325: tool_to_use.invoke(tool_input) raises
InvokeRaises ==
  /\ pc = "invoke"
  /\ deviations < MaxDeviations
  /\ deviations' = deviations + 1
  /\ \E e \in ToolErrors :
       /\ tool_calls' = Append(tool_calls,
            ToolCall(i, tool_map[action_obj.tool], action_obj.tool_input, TRUE, e))
       /\ observation' = StrV(ToolErrorObservation(e))
  /\ observed' = Append(observed, observation')
  /\ pc' = "record"
  /\ UNCHANGED << inputs, tool_map, history_str, intermediate_steps_str, i, prompt,
                  action_obj, result, outcome, llm_calls, decisions >>

\* Variant: the step text replaces the accumulated text (= for +=).
Record_Overwrite ==
  /\ pc = "record"
  /\ intermediate_steps_str' = StepText(action_obj, observation)
  /\ i' = i + 1
  /\ pc' = "loop"
  /\ UNCHANGED << inputs, tool_map, history_str, prompt, action_obj, observation,
                  result, outcome, mocks >>

\* Variant: the step is appended twice.
Record_Twice ==
  /\ pc = "record"
  /\ intermediate_steps_str' = intermediate_steps_str
       \o StepText(action_obj, observation) \o StepText(action_obj, observation)
  /\ i' = i + 1
  /\ pc' = "loop"
  /\ UNCHANGED << inputs, tool_map, history_str, prompt, action_obj, observation,
                  result, outcome, mocks >>

\* Variant: the new step is put in front of the steps recorded so far.
Record_Prepend ==
  /\ pc = "record"
  /\ intermediate_steps_str' = StepText(action_obj, observation) \o intermediate_steps_str
  /\ i' = i + 1
  /\ pc' = "loop"
  /\ UNCHANGED << inputs, tool_map, history_str, prompt, action_obj, observation,
                  result, outcome, mocks >>

\* lines 330-332, and the end of the loop body
Record ==
  /\ pc = "record"
  /\ intermediate_steps_str' = intermediate_steps_str \o StepText(action_obj, observation)
  /\ i' = i + 1
  /\ pc' = "loop"
  /\ UNCHANGED << inputs, tool_map, history_str, prompt, action_obj, observation,
                  result, outcome, mocks >>

Next ==
  \/ Call
  \/ LoopNext
  \/ LoopExhausted
  \/ CompletionReturns
  \/ CompletionInvalid
  \/ CompletionRaises
  \/ DispatchFinalAnswer
  \/ DispatchAskUser
  \/ DispatchTool
  \/ DispatchNotFound
  \/ InvokeReturns
  \/ InvokeRaises
  \/ Record

Spec == Init /\ [][Next]_vars

\* Every call the run makes returns: the run is never stopped half-way.
FairSpec == Spec /\ WF_vars(Next)

(***************************************************************************)
(* The UI session (lines 40-44, 359-378): one run per user turn.           *)
(***************************************************************************)
\* Variant: a run that ends with a question to the user is shown but not
\* kept as a prior turn.
UIFinish_SkipsAskUser ==
  /\ pc = "done"
  /\ messages' = Append(messages, AssistantMessage(result))
  /\ chat_history' = IF outcome = "AWAITING_USER" THEN chat_history
                     ELSE Append(chat_history, <<StrV(user_query), result>>)
  /\ pc' = "idle"
  /\ UNCHANGED << user_query, tools, parked, running, services, locals, result, outcome,
                  mocks >>

\* lines 377-378: the response is appended to messages and to chat_history
UIFinish ==
  /\ pc = "done"
  /\ messages' = Append(messages, AssistantMessage(result))
  /\ chat_history' = Append(chat_history, <<StrV(user_query), result>>)
  /\ pc' = "idle"
  /\ UNCHANGED << user_query, tools, parked, running, services, locals, result, outcome,
                  mocks >>

\* lines 360-361, 372: the user submits the next query and the engine is
\* called; the locals of the call that returned are dead (prompt, action_obj
\* and observation are shown unbound, the others are rebound by Call).
UISubmit ==
  /\ pc = "idle"
  /\ Len(chat_history) < MaxTurns
  /\ \E q \in { OtherQuery } :
       /\ user_query' = q
       /\ messages' = Append(messages, UserMessage(q))
  /\ pc' = "start"
  /\ prompt' = <<>>
  /\ action_obj' = NoneV
  /\ observation' = NoneV
  /\ result' = NoneV
  /\ outcome' = "none"
  /\ llm_calls' = 0
  /\ decisions' = <<>>
  /\ tool_calls' = <<>>
  /\ observed' = <<>>
  /\ UNCHANGED << chat_history, tools, parked, running, services, tool_map, history_str,
                  intermediate_steps_str, i, deviations >>

\* lines 41-44: a new session, at its first call of the engine
SessionInit ==
  /\ \E q \in Queries :
       /\ FrameIs(CalledFrame(q, <<>>, MaxDeviations - 1))
       /\ messages = <<UserMessage(q)>>
  /\ tools \in ToolLists
  /\ parked = NoFrame
  /\ running = 1
  /\ ServicesIdle

SessionNext ==
  \/ Next
  \/ UIFinish
  \/ UISubmit

SessionSpec == SessionInit /\ [][SessionNext]_vars

(***************************************************************************)
(* A run of the engine with a tool list that holds a name twice.           *)
(***************************************************************************)
RegistryInit ==
  /\ \E q \in Queries :
       /\ FrameIs(CalledFrame(q, <<>>, 0))
       /\ messages = <<UserMessage(q)>>
  /\ tools = DuplicateTools
  /\ parked = NoFrame
  /\ running = 1
  /\ ServicesIdle

RegistrySpec == RegistryInit /\ [][Next]_vars

(***************************************************************************)
(* Two runs executing concurrently (two sessions, each in its own thread). *)
(* Everything a run assigns is a local of its call (lines 271-331), so     *)
(* each run has its own frame; the tool list is the shared cached object.  *)
(***************************************************************************)
\* Variant: intermediate_steps_str is a module-level global, not a local.
Switch_SharedTrace ==
  /\ parked # NoFrame
  /\ parked' = CurrentFrame
  /\ running' = 3 - running
  /\ pc' = parked.pc
  /\ user_query' = parked.user_query
  /\ chat_history' = parked.chat_history
  /\ tool_map' = parked.tool_map
  /\ history_str' = parked.history_str
  /\ i' = parked.i
  /\ prompt' = parked.prompt
  /\ action_obj' = parked.action_obj
  /\ observation' = parked.observation
  /\ result' = parked.result
  /\ outcome' = parked.outcome
  /\ llm_calls' = parked.llm_calls
  /\ decisions' = parked.decisions
  /\ tool_calls' = parked.tool_calls
  /\ observed' = parked.observed
  /\ deviations' = parked.deviations
  /\ UNCHANGED << tools, messages, services, intermediate_steps_str >>

\* The executing thread is preempted and the other run continues.
Switch ==
  /\ parked # NoFrame
  /\ parked' = CurrentFrame
  /\ running' = 3 - running
  /\ pc' = parked.pc
  /\ user_query' = parked.user_query
  /\ chat_history' = parked.chat_history
  /\ tool_map' = parked.tool_map
  /\ history_str' = parked.history_str
  /\ intermediate_steps_str' = parked.intermediate_steps_str
  /\ i' = parked.i
  /\ prompt' = parked.prompt
  /\ action_obj' = parked.action_obj
  /\ observation' = parked.observation
  /\ result' = parked.result
  /\ outcome' = parked.outcome
  /\ llm_calls' = parked.llm_calls
  /\ decisions' = parked.decisions
  /\ tool_calls' = parked.tool_calls
  /\ observed' = parked.observed
  /\ deviations' = parked.deviations
  /\ UNCHANGED << tools, messages, services >>

ConcInit ==
  /\ \E q \in Queries :
       /\ FrameIs(CalledFrame(q, <<>>, MaxDeviations - 1))
       /\ messages = <<UserMessage(q)>>
  /\ tools \in ToolLists
  /\ parked = CalledFrame(OtherQuery, CHOOSE h \in Histories : h # <<>>, MaxDeviations)
  /\ running = 1
  /\ ServicesIdle

ConcNext ==
  \/ Next
  \/ Switch

ConcSpec == ConcInit /\ [][ConcNext]_vars

(***************************************************************************)
(* The other programs of the repository.  While one of them is modelled,   *)
(* the ReAct engine is not running.                                        *)
(***************************************************************************)
engine == << pc, user_query, chat_history, tools, tool_map, history_str,
             intermediate_steps_str, i, prompt, action_obj, observation, result,
             outcome, llm_calls, decisions, tool_calls, observed, deviations,
             messages, parked, running >>

EngineIdle ==
  /\ FrameIs(CalledFrame(<<"2+2?">>, <<>>, 0))
  /\ tools = get_tools
  /\ messages = <<>>
  /\ parked = NoFrame
  /\ running = 1

(***************************************************************************)
(* The HTTP servers of day 5: mcp_server.py and a2a_blog_system.py.        *)
(***************************************************************************)
Endpoint(srv, path, secured) == [server |-> srv, path |-> path, secured |-> secured]

\* mcp_server.py lines 39-80 and a2a_blog_system.py lines 76-153: the routes
\* and whether they declare Depends(get_api_key).
Endpoints ==
  { Endpoint("mcp", "/", FALSE),
    Endpoint("mcp", "/api/v1/tools/web_search", TRUE),
    Endpoint("mcp", "/api/v1/tools/news_api", TRUE),
    Endpoint("mcp", "/api/v1/tools/arxiv_search", TRUE),
    Endpoint("mcp", "/api/v1/resources/templates", TRUE),
    Endpoint("a2a", "/", FALSE),
    Endpoint("a2a", "/api/v1/dialogue", TRUE),
    Endpoint("a2a", "/api/v1/create-content", TRUE),
    Endpoint("a2a", "/api/v1/quality-control", TRUE) }

CREATE_CONTENT == "/api/v1/create-content"

\* The values of the X-API-Key header: absent (None with auto_error=False),
\* the right key, another key.
ApiKeys == { NoneV, StrV(<<"secret">>), StrV(<<"wrong">>) }

\* The environment: MASTER_API_KEY unset (os.environ.get gives None) or set.
MasterKeys == { NoneV, StrV(<<"secret">>) }

HttpRequest(e, key) ==
  [kind |-> "request", endpoint |-> e, api_key |-> key, stage |-> "security",
   crew |-> "none"]

HttpError(code, detail) == [kind |-> "error", status_code |-> code, detail |-> detail]
HttpOk == [kind |-> "ok", status_code |-> 200]

\* a2a_protocol.py lines 22-25
ContentCreationResponse(draft, status, error) ==
  [kind |-> "content", status_code |-> 200, draft_content |-> draft,
   status |-> status, error_message |-> error]

\* What crew.kickoff() does: it returns a draft or raises.
CrewOutcomes == { "draft", "raises" }
CrewDraft == StrV(<<"draft">>)
CrewError == <<"crew failed">>

\* What asyncio.to_thread does besides running the function: it may fail to
\* start the thread.
ThreadError == <<"cannot schedule new futures">>

\* content_creation_crew.py lines 23-67: the result of kickoff, or the error
\* text when anything in the try block raises.
handle_creation_logic(crew) ==
  IF crew = "draft" THEN CrewDraft
  ELSE StrV(<<"CrewAI run error: ">> \o CrewError)

\* get_api_key, lines 26-30 and 52-56
ApiKeyAccepted(key) == key = master_api_key

\* a request arrives
HttpReceive ==
  /\ http_request = NoRequest
  /\ Cardinality(handled) < MaxHandled
  /\ \E e \in Endpoints, key \in ApiKeys : http_request' = HttpRequest(e, key)
  /\ http_response' = NoResponse
  /\ UNCHANGED << engine, storage, a2a, master_api_key, langfuse_client, handled >>

\* the route has no security dependency
NoSecurity ==
  /\ http_request.kind = "request"
  /\ http_request.stage = "security"
  /\ ~http_request.endpoint.secured
  /\ http_request' = [http_request EXCEPT !.stage = "handler"]
  /\ UNCHANGED << engine, storage, a2a, master_api_key, langfuse_client,
                  http_response, handled >>

\* get_api_key returns the key
GetApiKeyReturns ==
  /\ http_request.kind = "request"
  /\ http_request.stage = "security"
  /\ http_request.endpoint.secured
  /\ ApiKeyAccepted(http_request.api_key)
  /\ http_request' = [http_request EXCEPT !.stage = "handler"]
  /\ UNCHANGED << engine, storage, a2a, master_api_key, langfuse_client,
                  http_response, handled >>

\* get_api_key raises HTTPException(401)
GetApiKeyRaises ==
  /\ http_request.kind = "request"
  /\ http_request.stage = "security"
  /\ http_request.endpoint.secured
  /\ ~ApiKeyAccepted(http_request.api_key)
  /\ http_request' = [http_request EXCEPT !.stage = "done"]
  /\ http_response' = HttpError(401, <<"Invalid API Key">>)
  /\ UNCHANGED << engine, storage, a2a, master_api_key, langfuse_client, handled >>

HandlerRan == handled \cup { [endpoint |-> http_request.endpoint,
                              api_key |-> http_request.api_key] }

\* the handler of a route other than create-content runs
HandlerRuns ==
  /\ http_request.kind = "request"
  /\ http_request.stage = "handler"
  /\ http_request.endpoint.path # CREATE_CONTENT
  /\ handled' = HandlerRan
  /\ http_request' = [http_request EXCEPT !.stage = "done"]
  /\ \E r \in { HttpOk, HttpError(500, <<"Internal Server Error">>) } :
       http_response' = r
  /\ UNCHANGED << engine, storage, a2a, master_api_key, langfuse_client >>

\* a2a_blog_system.py lines 127-137 and 145-147: handle_creation_logic
\* returns and the response is COMPLETED
CreateContentCompleted ==
  /\ http_request.kind = "request"
  /\ http_request.stage = "handler"
  /\ http_request.endpoint.path = CREATE_CONTENT
  /\ handled' = HandlerRan
  /\ \E crew \in CrewOutcomes :
       /\ http_request' = [http_request EXCEPT !.stage = "done", !.crew = crew]
       /\ http_response' =
            ContentCreationResponse(handle_creation_logic(crew), "COMPLETED", NoneV)
  /\ UNCHANGED << engine, storage, a2a, master_api_key, langfuse_client >>

\* lines 139-142 and 148-149: the call raises and the response is FAILED
CreateContentFailed ==
  /\ http_request.kind = "request"
  /\ http_request.stage = "handler"
  /\ http_request.endpoint.path = CREATE_CONTENT
  /\ handled' = HandlerRan
  /\ http_request' = [http_request EXCEPT !.stage = "done", !.crew = "not run"]
  /\ http_response' = ContentCreationResponse(StrV(<<>>), "FAILED", StrV(ThreadError))
  /\ UNCHANGED << engine, storage, a2a, master_api_key, langfuse_client >>

\* the response is sent
HttpRespond ==
  /\ http_request.kind = "request"
  /\ http_request.stage = "done"
  /\ http_request' = NoRequest
  /\ UNCHANGED << engine, storage, a2a, master_api_key, langfuse_client,
                  http_response, handled >>

\* the servers start with the environment they are given
ApiInit ==
  /\ EngineIdle
  /\ StorageIdle
  /\ A2AIdle
  /\ master_api_key \in MasterKeys
  /\ langfuse_client \in BOOLEAN
  /\ http_request = NoRequest
  /\ http_response = NoResponse
  /\ handled = {}

ApiNext ==
  \/ HttpReceive
  \/ NoSecurity
  \/ GetApiKeyReturns
  \/ GetApiKeyRaises
  \/ HandlerRuns
  \/ CreateContentCompleted
  \/ CreateContentFailed
  \/ HttpRespond

ApiSpec == ApiInit /\ [][ApiNext]_vars

(***************************************************************************)
(* The research storage server: research_storage_mcp.py.                   *)
(***************************************************************************)
Titles == { StrV(<<"A">>), StrV(<<"B">>) }
Contents == { StrV(<<"x">>), StrV(<<"y">>) }
MaterialIds == 1..(MaxMaterials + 1)

\* lines 20-32; updated_at is the time of the last modification, counted in
\* modifications of this material.
ResearchMaterial(id, title, content, updated) ==
  [id |-> id, title |-> title, content |-> content, updated_at |-> updated]

\* material.dict() written by json.dump(..., default=str): the datetime
\* becomes its text.
DumpMaterial(m) ==
  [id |-> m.id, title |-> m.title, content |-> m.content,
   updated_at |-> <<"datetime", m.updated_at>>]

\* ResearchMaterial(**material_data): pydantic parses the text of a datetime.
ParseMaterial(d) ==
  [id |-> d.id, title |-> d.title, content |-> d.content,
   updated_at |-> d.updated_at[2]]

\* lines 47-58
load_materials(file) ==
  IF file.kind = "json"
  THEN [ id \in DOMAIN file.data |-> ParseMaterial(file.data[id]) ]
  ELSE << >>

\* lines 61-68: the file after save_materials(materials).  When open() fails
\* the file is as before; when the write fails after open() truncated the
\* file, what is left is not JSON.  Either way the exception is printed and
\* swallowed.
save_materials(materials, file) ==
  IF disk = "ok"
  THEN [kind |-> "json", data |-> [ id \in DOMAIN materials |-> DumpMaterial(materials[id]) ]]
  ELSE IF disk = "readonly" THEN file
  ELSE [kind |-> "partial", data |-> << >>]

StorageReply(op, id, error, text) ==
  [op |-> op, id |-> id, error |-> error, text |-> text]

NotFoundText(id) == <<"error: material not found. ID: ", id>>

\* lines 205-221
create_research_material ==
  /\ uuids < MaxMaterials
  /\ \E title \in Titles, content \in Contents :
       LET material_id == uuids + 1
           material == ResearchMaterial(material_id, title, content, 0)
           store == [ id \in DOMAIN materials_store \cup { material_id } |->
                        IF id = material_id THEN material ELSE materials_store[id] ]
       IN /\ materials_store' = store
          /\ materials_file' = save_materials(store, materials_file)
          /\ storage_reply' = StorageReply("create", material_id, FALSE,
                                           <<"created. ID: ", material_id>>)
  /\ uuids' = uuids + 1
  /\ UNCHANGED << engine, api, a2a, deleted, disk >>

\* Variant: an update of an id that is not stored creates the material.
update_research_material_Upsert ==
  \E material_id \in MaterialIds, title \in Titles \cup { NoneV },
     content \in Contents \cup { NoneV } :
    LET old == IF material_id \in DOMAIN materials_store
               THEN materials_store[material_id]
               ELSE ResearchMaterial(material_id, StrV(<<"A">>), StrV(<<"x">>), 0)
        material ==
          ResearchMaterial(material_id,
                           IF title # NoneV THEN title ELSE old.title,
                           IF content # NoneV THEN content ELSE old.content,
                           old.updated_at + 1)
        store == [ id \in DOMAIN materials_store \cup { material_id } |->
                     IF id = material_id THEN material ELSE materials_store[id] ]
    IN /\ old.updated_at < MaxUpdates
       /\ materials_store' = store
       /\ materials_file' = save_materials(store, materials_file)
       /\ storage_reply' = StorageReply("update", material_id, FALSE,
                                        <<"updated. ID: ", material_id>>)
       /\ UNCHANGED << engine, api, a2a, deleted, uuids, disk >>

\* lines 224-258
update_research_material ==
  \E material_id \in MaterialIds, title \in Titles \cup { NoneV },
     content \in Contents \cup { NoneV } :
    IF material_id \notin DOMAIN materials_store
    THEN /\ storage_reply' = StorageReply("update", material_id, TRUE,
                                          NotFoundText(material_id))
         /\ UNCHANGED << engine, api, a2a, materials_store, materials_file, deleted,
                         uuids, disk >>
    ELSE LET old == materials_store[material_id]
             material ==
               ResearchMaterial(material_id,
                                IF title # NoneV THEN title ELSE old.title,
                                IF content # NoneV THEN content ELSE old.content,
                                old.updated_at + 1)
             store == [materials_store EXCEPT ![material_id] = material]
         IN /\ old.updated_at < MaxUpdates
            /\ materials_store' = store
            /\ materials_file' = save_materials(store, materials_file)
            /\ storage_reply' = StorageReply("update", material_id, FALSE,
                                             <<"updated. ID: ", material_id>>)
            /\ UNCHANGED << engine, api, a2a, deleted, uuids, disk >>

\* lines 261-270
delete_research_material ==
  \E material_id \in MaterialIds :
    IF material_id \notin DOMAIN materials_store
    THEN /\ storage_reply' = StorageReply("delete", material_id, TRUE,
                                          NotFoundText(material_id))
         /\ UNCHANGED << engine, api, a2a, materials_store, materials_file, deleted,
                         uuids, disk >>
    ELSE LET deleted_material == materials_store[material_id]
             store == [ id \in DOMAIN materials_store \ { material_id } |->
                          materials_store[id] ]
         IN /\ materials_store' = store
            /\ materials_file' = save_materials(store, materials_file)
            /\ deleted' = deleted \cup { material_id }
            /\ storage_reply' = StorageReply("delete", material_id, FALSE,
                                             <<"deleted. title: ">> \o deleted_material.title.val)
            /\ UNCHANGED << engine, api, a2a, uuids, disk >>

\* lines 97-108
get_material ==
  /\ \E material_id \in MaterialIds :
       storage_reply' =
         IF material_id \notin DOMAIN materials_store
         THEN StorageReply("get", material_id, TRUE, NotFoundText(material_id))
         ELSE StorageReply("get", material_id, FALSE,
                           <<"material: ">> \o materials_store[material_id].title.val)
  /\ UNCHANGED << engine, api, a2a, materials_store, materials_file, deleted, uuids,
                  disk >>

\* The file system stops accepting writes: open() fails, or the write fails
\* after open() has truncated the file.
DiskFails ==
  /\ disk = "ok"
  /\ disk' \in { "readonly", "full" }
  /\ UNCHANGED << engine, api, a2a, materials_store, materials_file, storage_reply,
                  deleted, uuids >>

\* line 72: the server is started again and loads the file; a new session
\* begins.
StorageRestart ==
  /\ materials_store' = load_materials(materials_file)
  /\ storage_reply' = NoStorageReply
  /\ deleted' = {}
  /\ UNCHANGED << engine, api, a2a, materials_file, uuids, disk >>

StorageInit ==
  /\ EngineIdle
  /\ ApiIdle
  /\ A2AIdle
  /\ StorageIdle

StorageNext ==
  \/ create_research_material
  \/ update_research_material
  \/ delete_research_material
  \/ get_material
  \/ DiskFails
  \/ StorageRestart

StorageSpec == StorageInit /\ [][StorageNext]_vars

(***************************************************************************)
(* The A2A executors: research_agent_a2a.py and writing_agent_a2a.py.      *)
(***************************************************************************)
\* The "message" entry of context.request: absent, a dict without text, a
\* dict with an empty or a non-empty text, or a value that is not a dict.
A2AMessages ==
  { [kind |-> "absent"], [kind |-> "dict"], [kind |-> "dict", text |-> <<>>],
    [kind |-> "dict", text |-> <<"hi">>], [kind |-> "str", text |-> <<"hi">>] }

\* The "skill" entry ("" when absent) and the "taskId" and "contextId"
\* entries (None when absent).
A2ASkills == { "", "research", "writing", "revision", "translate" }
A2ATaskIds == { NoneV, StrV(<<"t1">>) }
A2AContextIds == { NoneV, StrV(<<"c1">>) }

A2ARequest(agent, message, skill, task_id, context_id) ==
  [kind |-> "request", agent |-> agent, message |-> message, skill |-> skill,
   taskId |-> task_id, contextId |-> context_id]

\* context.request.get("message", {}).get("text", ""): a str has no get.
MessageRaises(message) == message.kind = "str"
MessageText(message) ==
  IF message.kind = "dict" /\ "text" \in DOMAIN message THEN message.text ELSE <<>>

\* What litellm.acompletion does: it returns a completion or raises.
LlmOutcomes == { "content", "raises" }

\* The returned task; id is a fresh uuid4 ("new") or the taskId of the request.
A2ATask(id, state, message, artifacts) ==
  [kind |-> "task", id |-> id, state |-> state, message |-> message,
   artifacts |-> artifacts]

\* conduct_research / write_article / process_feedback: the completion, or
\* the error text when the call raises.
AgentText(what, llm) ==
  IF llm = "content" THEN <<what, ": content">> ELSE <<what, ": error text">>

\* research_agent_a2a.py lines 23-65
ResearchExecute(request, llm) ==
  IF MessageRaises(request.message)
  THEN A2ATask("new", "failed", <<"research error: 'str' object has no attribute 'get'">>, <<>>)
  ELSE IF MessageText(request.message) = <<>>
  THEN A2ATask("new", "failed", <<"message is empty">>, <<>>)
  ELSE IF request.skill = "research" \/ request.skill = ""
  THEN A2ATask("new", "completed", <<"research done">>,
               <<AgentText("research", llm)>>)
  ELSE A2ATask("new", "failed", <<"unsupported skill: ", request.skill>>, <<>>)

\* writing_agent_a2a.py lines 27-87
WritingExecute(request, llm) ==
  IF MessageRaises(request.message)
  THEN A2ATask("new", "failed", <<"writing error: 'str' object has no attribute 'get'">>, <<>>)
  ELSE IF MessageText(request.message) = <<>>
  THEN A2ATask("new", "failed", <<"message is empty">>, <<>>)
  ELSE IF request.skill = "writing" \/ (request.skill = "" /\ request.taskId = NoneV)
  THEN A2ATask("new", "completed", <<"writing done">>, <<AgentText("writing", llm)>>)
  ELSE IF request.skill = "revision" \/ request.taskId # NoneV
  THEN A2ATask(IF request.taskId # NoneV THEN request.taskId ELSE "new",
               "completed", <<"feedback applied">>, <<AgentText("feedback", llm)>>)
  ELSE A2ATask("new", "failed", <<"unsupported skill: ", request.skill>>, <<>>)

\* a request is handed to an executor
A2AReceive ==
  /\ a2a_request = NoRequest
  /\ \E agent \in { "research", "writing" }, message \in A2AMessages,
        skill \in A2ASkills, task_id \in A2ATaskIds, context_id \in A2AContextIds :
       a2a_request' = A2ARequest(agent, message, skill, task_id, context_id)
  /\ a2a_reply' = NoResponse
  /\ UNCHANGED << engine, storage, api >>

\* ResearchAgentExecutor.execute runs to its return
ResearchAgentExecutes ==
  /\ a2a_request.kind = "request"
  /\ a2a_request.agent = "research"
  /\ a2a_reply = NoResponse
  /\ \E llm \in LlmOutcomes : a2a_reply' = ResearchExecute(a2a_request, llm)
  /\ UNCHANGED << engine, storage, api, a2a_request >>

\* WritingAgentExecutor.execute runs to its return
WritingAgentExecutes ==
  /\ a2a_request.kind = "request"
  /\ a2a_request.agent = "writing"
  /\ a2a_reply = NoResponse
  /\ \E llm \in LlmOutcomes : a2a_reply' = WritingExecute(a2a_request, llm)
  /\ UNCHANGED << engine, storage, api, a2a_request >>

\* the task is returned to the caller
A2AReturn ==
  /\ a2a_request.kind = "request"
  /\ a2a_reply # NoResponse
  /\ a2a_request' = NoRequest
  /\ UNCHANGED << engine, storage, api, a2a_reply >>

A2AInit ==
  /\ EngineIdle
  /\ StorageIdle
  /\ ApiIdle
  /\ A2AIdle

A2ANext ==
  \/ A2AReceive
  \/ ResearchAgentExecutes
  \/ WritingAgentExecutes
  \/ A2AReturn

A2ASpec == A2AInit /\ [][A2ANext]_vars

TypeOK ==
  /\ pc \in { "start", "loop", "request", "dispatch", "invoke", "record", "done", "idle" }
  /\ i \in 0..MAX_ITERS
  /\ outcome \in { "none", "FINAL_ANSWER", "AWAITING_USER", "MAX_ITERS", "ENGINE_ERROR" }

(***************************************************************************)
(* Notions the properties are stated in.                                   *)
(***************************************************************************)
Terminals == { "FINAL_ANSWER", "AWAITING_USER", "MAX_ITERS", "ENGINE_ERROR" }

\* The state of the run in the state machine of the design.
RunState ==
  IF pc = "start" THEN "START"
  ELSE IF pc = "done" THEN outcome
  ELSE "ITERATING"

LastDecision == decisions[Len(decisions)]

\* The decision names a tool the registry resolves and the engine invokes.
NamesInvocableTool(d) ==
  /\ d.tool # FINAL_ANSWER_TOOL
  /\ d.tool # ASK_USER_TOOL
  /\ d.tool \in { tools[k].name : k \in 1..Len(tools) }

\* The decision names a tool that is absent from the registry.
NamesAbsentTool(d) ==
  /\ d.tool # FINAL_ANSWER_TOOL
  /\ d.tool # ASK_USER_TOOL
  /\ d.tool \notin { tools[k].name : k \in 1..Len(tools) }

\* The tool invocations made in loop pass k (0-based).
CallsIn(k) == { n \in 1..Len(tool_calls) : tool_calls[n].iter = k }

\* The entries of the trace text: each starts at a "Thought" mark and runs
\* up to the next one.
RECURSIVE MarksIn(_, _, _)
\* The positions of the "Thought" marks of s in lo..hi, in increasing order
\* (the range is halved at each step).
MarksIn(s, lo, hi) ==
  IF lo > hi THEN <<>>
  ELSE IF lo = hi THEN (IF s[lo] = "\nThought: " THEN <<lo>> ELSE <<>>)
  ELSE LET mid == (lo + hi) \div 2
       IN MarksIn(s, lo, mid) \o MarksIn(s, mid + 1, hi)

MarksFrom(s, p) == MarksIn(s, p, Len(s))

Entries(s) ==
  LET m == MarksFrom(s, 1)
  IN [ j \in 1..Len(m) |->
         SubSeq(s, m[j], IF j = Len(m) THEN Len(s) ELSE m[j + 1] - 1) ]

NumEntries(s) == Len(MarksFrom(s, 1))
Entry(s, j) == Entries(s)[j]

(***************************************************************************)
(* C1.  Under FairSpec: the loop makes at most MAX_ITERS = 10 passes (the  *)
(* iteration counter and the number of decision requests never exceed 10)  *)
(* and, every completion call and tool call returning, the run reaches a   *)
(* return.                                                                 *)
(***************************************************************************)
C1_BoundedAndTerminates ==
  /\ [](i <= MAX_ITERS /\ llm_calls <= MAX_ITERS /\ NumEntries(intermediate_steps_str) <= MAX_ITERS)
  /\ <>(pc = "done")

C1_Witness == pc = "done" /\ i = MAX_ITERS /\ llm_calls = MAX_ITERS

(***************************************************************************)
(* C2.  A Final Answer decision at pass k makes the run return the         *)
(* decision's text at once: the result is the decision's tool_input, no    *)
(* tool was invoked in pass k, the completion capability was called        *)
(* exactly k+1 times, and nothing more happens afterwards.                 *)
(***************************************************************************)
C2_AtReturn ==
  /\ (Len(decisions) > 0 /\ LastDecision.tool = FINAL_ANSWER_TOOL /\ pc # "dispatch")
       => (pc = "done" /\ outcome = "FINAL_ANSWER")
  /\ outcome = "FINAL_ANSWER" =>
       /\ LastDecision.tool = FINAL_ANSWER_TOOL
       /\ result = LastDecision.tool_input
       /\ llm_calls = i + 1
       /\ Len(decisions) = i + 1
       /\ CallsIn(i) = {}
       /\ NumEntries(intermediate_steps_str) = i

C2_FinalAnswerShortCircuit ==
  /\ []C2_AtReturn
  /\ [][outcome = "FINAL_ANSWER" =>
          UNCHANGED << i, llm_calls, tool_calls, intermediate_steps_str, result >>]_vars

C2_Witness ==
  /\ outcome = "FINAL_ANSWER"
  /\ i = 1
  /\ llm_calls = 2
  /\ result = StrV(<<"answer">>)

(***************************************************************************)
(* C3.  A decision naming ask_user_tool halts the loop in the pass it is   *)
(* made in, whatever the remaining budget and however long the trace: no   *)
(* further decision is requested and the result is a string that contains  *)
(* the text of the decision's question.                                    *)
(***************************************************************************)
C3_AtReturn ==
  /\ (Len(decisions) > 0 /\ LastDecision.tool = ASK_USER_TOOL /\ pc # "dispatch")
       => /\ pc = "done"
          /\ outcome = "AWAITING_USER"
          /\ result.type = "str"
          /\ Contains(result.val, LastDecision.tool_input.val)
          /\ llm_calls = Len(decisions)
          /\ llm_calls = i + 1
          /\ CallsIn(i) = {}
  /\ outcome = "AWAITING_USER" => LastDecision.tool = ASK_USER_TOOL

C3_AskUserShortCircuit ==
  /\ []C3_AtReturn
  /\ [][outcome = "AWAITING_USER" =>
          UNCHANGED << i, llm_calls, tool_calls, intermediate_steps_str, result >>]_vars

C3_Witness ==
  /\ outcome = "AWAITING_USER"
  /\ i >= 2
  /\ i < MAX_ITERS - 1
  /\ NumEntries(intermediate_steps_str) >= 2
  /\ LastDecision.tool_input = StrV(<<"which?">>)

(***************************************************************************)
(* C4.  When every decision of a run names a registered tool other than    *)
(* ask_user_tool and no decision request fails, the run returns the fixed  *)
(* max-iterations message after exactly MAX_ITERS = 10 passes, with        *)
(* exactly 10 calls of the completion capability.                          *)
(***************************************************************************)
AllToolDecisions ==
  /\ llm_calls = Len(decisions)
  /\ \A j \in 1..Len(decisions) : NamesInvocableTool(decisions[j])

C4_BudgetExhaustion ==
  (pc = "done" /\ AllToolDecisions) =>
    /\ outcome = "MAX_ITERS"
    /\ result = StrV(MaxItersMessage)
    /\ i = MAX_ITERS
    /\ llm_calls = MAX_ITERS
    /\ Len(tool_calls) = MAX_ITERS

C4_Witness ==
  /\ pc = "done"
  /\ AllToolDecisions
  /\ outcome = "MAX_ITERS"
  /\ \E n \in 1..Len(tool_calls) : tool_calls[n].raised

(***************************************************************************)
(* C5.  When the invocation of a registered tool raises in pass k, the     *)
(* observation of pass k is a string that contains the description of the  *)
(* failure, it is recorded as the observation of entry k of the trace, and *)
(* the run goes on: it does not return in pass k (so not with the engine   *)
(* error either) and the next decision is requested, unless pass k was the *)
(* last of the MAX_ITERS passes.                                           *)
(***************************************************************************)
C5_ToolFailureIsolation ==
  \A n \in 1..Len(tool_calls) :
    LET c == tool_calls[n]
        k == c.iter
    IN c.raised =>
         /\ Len(observed) >= k + 1
         /\ observed[k + 1].type = "str"
         /\ Contains(observed[k + 1].val, c.detail)
         /\ i = k => (pc = "record" /\ outcome = "none" /\ observation = observed[k + 1])
         /\ pc = "done" => i > k
         /\ i > k =>
              /\ NumEntries(intermediate_steps_str) >= k + 1
              /\ Contains(Entry(intermediate_steps_str, k + 1),
                          <<"\nObservation: ">> \o observed[k + 1].val)
         /\ (i > k /\ pc \notin { "loop", "request" }) =>
              (llm_calls >= k + 2 \/ outcome = "MAX_ITERS")

C5_Witness ==
  \E n \in 1..Len(tool_calls) :
    /\ tool_calls[n].raised
    /\ tool_calls[n].iter = 1
    /\ llm_calls = 3
    /\ pc = "dispatch"

C7_DecisionFailureIsFatal ==
  llm_calls # Len(decisions) =>
    /\ llm_calls = Len(decisions) + 1
    /\ pc = "done"
    /\ outcome = "ENGINE_ERROR"
    /\ result.type = "str"
    /\ Contains(result.val, <<"ReAct engine error: ">>)
    /\ llm_calls = i + 1
    /\ CallsIn(i) = {}
    /\ Len(observed) = i
    /\ NumEntries(intermediate_steps_str) = i

C7_Witness ==
  /\ outcome = "ENGINE_ERROR"
  /\ i = 2
  /\ llm_calls = 3
  /\ Contains(result.val, <<"validation error for Action: ">>)

(***************************************************************************)
(* C8.  The value the run hands to the caller is always a string, in all   *)
(* four outcomes, also when the final answer's tool_input is structured.   *)
(***************************************************************************)
C8_ResultIsString ==
  pc = "done" => result.type = "str"

(***************************************************************************)
(* C9.  After n completed passes the trace holds exactly n entries, and    *)
(* entry j holds the thought, the decision and the observation of the j-th *)
(* pass, in the order of the passes.                                       *)
(***************************************************************************)
C9_TraceGrowth ==
  LET es == Entries(intermediate_steps_str)
  IN /\ Len(es) = i
     /\ Len(decisions) >= i
     /\ Len(observed) >= i
     /\ \A j \in 1..i :
          /\ Contains(es[j], <<"\nThought: ">> \o decisions[j].thought.val)
          /\ Contains(es[j], <<"\nAction: ">> \o ModelDumpJson(decisions[j]))
          /\ Contains(es[j], <<"\nObservation: ">> \o PyStr(observed[j]))
     /\ Join(<<>>, es) = intermediate_steps_str

C9_Witness ==
  /\ i = 3
  /\ pc = "loop"
  /\ decisions[1] # decisions[2]
  /\ observed[2] # observed[3]

(***************************************************************************)
(* C10.  Under FairSpec: a run goes START -> ITERATING* -> terminal and    *)
(* ends in exactly one of FINAL_ANSWER, AWAITING_USER, MAX_ITERS and       *)
(* ENGINE_ERROR; ITERATING is the only state that is left again, and once  *)
(* a terminal state is reached there is no further decision request, tool  *)
(* invocation or change of the trace.                                      *)
(***************************************************************************)
C10_StateMachine ==
  /\ [](/\ RunState \in { "START", "ITERATING" } \cup Terminals
        /\ (outcome \in Terminals) <=> (pc = "done"))
  /\ [][/\ RunState = "START" => RunState' = "ITERATING"
        /\ RunState = "ITERATING" => RunState' \in { "ITERATING" } \cup Terminals
        /\ (RunState \in Terminals \/ outcome \in Terminals) =>
             UNCHANGED << pc, outcome, result, llm_calls, decisions, tool_calls,
                          observed, intermediate_steps_str, i >>]_vars
  /\ <>[](RunState \in Terminals)

C10_Witness ==
  /\ RunState = "AWAITING_USER"
  /\ i = 1

(***************************************************************************)
(* C11.  Under ConcSpec: two runs whose steps interleave in any way are    *)
(* independent.  A step of one run leaves the other run's state as it is,  *)
(* the tool list is never changed, and each run's trace, prompt and result *)
(* are what its own query, history, decisions and tool outcomes give when  *)
(* it runs alone.                                                          *)
(***************************************************************************)
\* The trace a run builds alone from the outcomes recorded in frame f.
AloneTrace(f) ==
  Join(<<>>, [ j \in 1..f.i |-> StepText(f.decisions[j], f.observed[j]) ])

\* The frame f is what its run produces alone from its own inputs and from
\* the decisions and tool outcomes it received.
AsWhenAlone(f) ==
  /\ f.pc # "start" =>
       /\ f.tool_map = ToolMapOf(tools)
       /\ f.history_str = HistoryStr(f.chat_history)
       /\ f.intermediate_steps_str = AloneTrace(f)
       /\ f.llm_calls \in { f.i, f.i + 1 }
       /\ \A n \in 1..Len(f.tool_calls) :
            f.tool_calls[n].input = f.decisions[f.tool_calls[n].iter + 1].tool_input
  /\ f.pc = "request" =>
       f.prompt = FormatPrompt(f.user_query, HistoryStr(f.chat_history), AloneTrace(f))
  /\ f.outcome = "FINAL_ANSWER" => f.result = f.decisions[Len(f.decisions)].tool_input
  /\ f.outcome = "AWAITING_USER" =>
       f.result = StrV(AskUserMessage(f.decisions[Len(f.decisions)].tool_input))
  /\ f.outcome = "MAX_ITERS" => (f.result = StrV(MaxItersMessage) /\ f.i = MAX_ITERS)
  /\ f.outcome = "ENGINE_ERROR" =>
       (f.result.type = "str" /\ f.llm_calls = Len(f.decisions) + 1)

C11_ConcurrentRunsIndependent ==
  /\ [](AsWhenAlone(CurrentFrame) /\ AsWhenAlone(parked))
  /\ [][/\ tools' = tools
        /\ running' = running => parked' = parked
        /\ running' # running => (parked' = CurrentFrame /\ CurrentFrame' = parked)]_vars

C11_Witness ==
  /\ parked # NoFrame
  /\ pc = "done"
  /\ outcome = "FINAL_ANSWER"
  /\ i = 2
  /\ parked.pc = "invoke"
  /\ parked.i = 3
  /\ intermediate_steps_str # parked.intermediate_steps_str

(***************************************************************************)
(* C12.  A decision whose tool name is neither a name of the tool registry *)
(* nor 'Final Answer' never passes validation: every decision the engine   *)
(* dispatches names a registered tool or 'Final Answer', for every tool    *)
(* list the engine is run with.                                            *)
(***************************************************************************)
RegistryNames == { tools[k].name : k \in 1..Len(tools) }

C12_DecisionNamesRegistryOrFinal ==
  /\ pc = "dispatch" => action_obj.tool \in RegistryNames \cup { FINAL_ANSWER_TOOL }
  /\ \A j \in 1..Len(decisions) :
       decisions[j].tool \in RegistryNames \cup { FINAL_ANSWER_TOOL }

(***************************************************************************)
(* C13.  Under RegistrySpec: a tool list in which two tools share a name   *)
(* is rejected when the registry is built, before any decision request:    *)
(* the run never gets past the construction of tool_map.                   *)
(***************************************************************************)
HasDuplicateNames(ts) ==
  \E j, k \in 1..Len(ts) : j # k /\ ts[j].name = ts[k].name

C13_DuplicateNamesRejected ==
  HasDuplicateNames(tools) =>
    /\ pc \in { "start", "done" }
    /\ llm_calls = 0
    /\ tool_calls = <<>>

(***************************************************************************)
(* C14.  Resolving a tool name is a pure lookup: the step that resolves    *)
(* changes nothing but the position of the run, and building the registry  *)
(* invokes nothing.  A tool is invoked only from the branch in which the   *)
(* decision of that pass names a tool (not 'Final Answer', not             *)
(* ask_user_tool) that resolves in the registry, and it is the tool the    *)
(* name resolves to.                                                       *)
(***************************************************************************)
C14_ResolveIsPureLookup ==
  /\ [](\A n \in 1..Len(tool_calls) :
          LET c == tool_calls[n]
              d == decisions[c.iter + 1]
          IN /\ Len(decisions) >= c.iter + 1
             /\ d.tool # FINAL_ANSWER_TOOL
             /\ d.tool # ASK_USER_TOOL
             /\ d.tool \in RegistryNames
             /\ c.tool = ToolMapOf(tools)[d.tool])
  /\ [][/\ pc \in { "start", "dispatch" } => tool_calls' = tool_calls
        /\ (pc = "dispatch" /\ pc' = "invoke") =>
             UNCHANGED << inputs, locals, result, outcome, mocks >>
        /\ pc # "start" => tool_map' = tool_map
        /\ tool_calls' # tool_calls =>
             (pc = "invoke" /\ Len(tool_calls') = Len(tool_calls) + 1)]_vars

C14_Witness ==
  /\ pc = "record"
  /\ Len(tool_calls) = 2
  /\ tool_calls[2].tool.name = "tavily_search_results_json"
  /\ tool_calls[1].tool.name = "calculator_tool"

(***************************************************************************)
(* C15.  The decision's tool_input reaches the branch that consumes it     *)
(* unchanged: a tool is invoked with exactly the tool_input of the         *)
(* decision of its pass, a Final Answer returns exactly its tool_input,    *)
(* and the ask-user result embeds its tool_input as the question.          *)
(***************************************************************************)
C15_ToolInputVerbatim ==
  /\ \A n \in 1..Len(tool_calls) :
       tool_calls[n].input = decisions[tool_calls[n].iter + 1].tool_input
  /\ outcome = "FINAL_ANSWER" => result = LastDecision.tool_input
  /\ outcome = "AWAITING_USER" =>
       /\ result.type = "str"
       /\ Contains(result.val, <<"[question]: ">> \o PyStr(LastDecision.tool_input))

C15_Witness ==
  /\ outcome = "AWAITING_USER"
  /\ LastDecision.tool_input.type = "dict"
  /\ \E n \in 1..Len(tool_calls) : tool_calls[n].input.type = "dict"

(***************************************************************************)
(* C16.  The events of a run are strictly sequential.  Each pass issues    *)
(* one decision request and then at most one tool invocation; the request  *)
(* of pass i+1 is issued only when the observations of all passes up to i  *)
(* are recorded in the trace; a tool is invoked only in the pass whose     *)
(* request has been answered, and not twice.                               *)
(***************************************************************************)
C16_StrictlySequential ==
  /\ [](/\ llm_calls \in { i, i + 1 }
        /\ \A k \in 0..MAX_ITERS : Cardinality(CallsIn(k)) <= 1
        /\ \A n \in 1..Len(tool_calls) : tool_calls[n].iter <= i)
  /\ [][/\ llm_calls' # llm_calls =>
             /\ llm_calls' = llm_calls + 1
             /\ llm_calls = i
             /\ NumEntries(intermediate_steps_str) = i
             /\ Len(observed) = i
             /\ tool_calls' = tool_calls
             /\ CallsIn(i) = {}
        /\ tool_calls' # tool_calls =>
             /\ llm_calls' = llm_calls
             /\ llm_calls = i + 1
             /\ CallsIn(i) = {}
             /\ Len(tool_calls') = Len(tool_calls) + 1
             /\ tool_calls'[Len(tool_calls')].iter = i]_vars

C16_Witness ==
  /\ pc = "dispatch"
  /\ i = 2
  /\ llm_calls = 3
  /\ Cardinality(CallsIn(0)) = 1
  /\ CallsIn(1) = {}

(***************************************************************************)
(* C17.  The decision request of pass i carries the user query, all prior  *)
(* turns in the caller's order, and the accumulated trace made of exactly  *)
(* the steps recorded in passes 0..i-1, in the order of the passes (no     *)
(* step at pass 0).                                                        *)
(***************************************************************************)
RenderedTurn(t) ==
  <<"Human: ">> \o PyStr(t[1]) \o <<"\nAssistant: ">> \o PyStr(t[2])

RenderedStep(j) ==
  <<"\nThought: ">> \o PyStr(decisions[j].thought)
    \o <<"\nAction: ">> \o ModelDumpJson(decisions[j])
    \o <<"\nObservation: ">> \o PyStr(observed[j])

C17_RequestCarriesState ==
  pc = "request" =>
    /\ Len(decisions) = i
    /\ Len(observed) = i
    /\ prompt =
         <<"<template> chat_history: ">>
           \o Join(<<"\n">>, [ k \in 1..Len(chat_history) |-> RenderedTurn(chat_history[k]) ])
           \o <<" intermediate_steps: ">>
           \o Join(<<>>, [ j \in 1..i |-> RenderedStep(j) ])
           \o <<" user_query: ">> \o user_query

C17_Witness ==
  /\ pc = "request"
  /\ i = 2
  /\ Len(chat_history) = 2
  /\ observed[1] # observed[2]

C19_NoCrossRunState ==
  /\ [][pc = "start" =>
          /\ pc' = "loop"
          /\ intermediate_steps_str' = <<>>
          /\ i' = 0]_vars
  /\ [](pc \notin { "start", "idle" } =>
          /\ llm_calls \in { i, i + 1 }
          /\ Len(decisions) >= i
          /\ Len(observed) >= i
          /\ intermediate_steps_str = Join(<<>>, [ j \in 1..i |-> RenderedStep(j) ])
          /\ history_str =
               Join(<<"\n">>,
                    [ k \in 1..Len(chat_history) |-> RenderedTurn(chat_history[k]) ]))

C19_Witness ==
  /\ pc = "loop"
  /\ i = 0
  /\ intermediate_steps_str = <<>>
  /\ Len(chat_history) = 1
  /\ chat_history[1][2] = StrV(MaxItersMessage)
  /\ user_query = OtherQuery

(***************************************************************************)
(* C20.  Under SessionSpec: a run leaves its inputs as they are.  No step  *)
(* of the engine, from the call to the return in any of the four terminal  *)
(* outcomes, changes the user query or the caller's prior turns.           *)
(***************************************************************************)
C20_InputsUnchanged ==
  [][pc \notin { "done", "idle" } =>
       /\ user_query' = user_query
       /\ chat_history' = chat_history]_vars

C20_Witness ==
  /\ pc = "done"
  /\ outcome = "ENGINE_ERROR"
  /\ i = 1
  /\ Len(chat_history) = 1
  /\ chat_history[1][1] = StrV(<<"2+2?">>)

(***************************************************************************)
(* C21.  A run ends with the max-iterations outcome if and only if all 10  *)
(* decision requests were answered by a valid decision and none of the 10  *)
(* decisions was a Final Answer or an ask-user decision.  A Final Answer,  *)
(* an ask-user decision or a failed request in the 10th pass gives that    *)
(* pass's own outcome, and the max-iterations result is the fixed message. *)
(***************************************************************************)
C21_MaxItersIffExhausted ==
  pc = "done" =>
    /\ outcome = "MAX_ITERS" <=>
         /\ llm_calls = MAX_ITERS
         /\ Len(decisions) = MAX_ITERS
         /\ \A j \in 1..Len(decisions) :
              decisions[j].tool \notin { FINAL_ANSWER_TOOL, ASK_USER_TOOL }
    /\ outcome = "MAX_ITERS" => result = StrV(MaxItersMessage)
    /\ (llm_calls = MAX_ITERS /\ Len(decisions) = MAX_ITERS - 1) =>
         outcome = "ENGINE_ERROR"
    /\ (Len(decisions) = MAX_ITERS /\ LastDecision.tool = FINAL_ANSWER_TOOL) =>
         (outcome = "FINAL_ANSWER" /\ result = LastDecision.tool_input)
    /\ (Len(decisions) = MAX_ITERS /\ LastDecision.tool = ASK_USER_TOOL) =>
         (outcome = "AWAITING_USER" /\ result # StrV(MaxItersMessage))

C21_Witness ==
  /\ pc = "done"
  /\ llm_calls = MAX_ITERS
  /\ Len(decisions) = MAX_ITERS
  /\ outcome = "FINAL_ANSWER"

(***************************************************************************)
(* C22.  With the tool list of get_tools() the tool-not-found branch is    *)
(* never taken: the names Action.tool accepts are the names of the six     *)
(* tools plus 'Final Answer', so every validated decision names 'Final     *)
(* Answer' or a key of tool_map, no observation is the not-found text, and *)
(* an observation is recorded only after a tool was invoked.               *)
(***************************************************************************)
C22_NotFoundUnreachable ==
  tools = get_tools =>
    /\ ActionToolNames = RegistryNames \cup { FINAL_ANSWER_TOOL }
    /\ \A j \in 1..Len(decisions) :
         decisions[j].tool \in RegistryNames \cup { FINAL_ANSWER_TOOL }
    /\ pc \in { "dispatch", "invoke", "record" } =>
         action_obj.tool \in DOMAIN ToolMapOf(tools) \cup { FINAL_ANSWER_TOOL }
    /\ \A j \in 1..Len(observed) :
         /\ observed[j] # StrV(ToolNotFoundObservation(decisions[j].tool))
         /\ CallsIn(j - 1) # {}

C22_Witness ==
  /\ tools = get_tools
  /\ pc = "record"
  /\ i = 2
  /\ Len(observed) = 3
  /\ { decisions[j].tool : j \in 1..3 } =
       { "calculator_tool", "tavily_search_results_json" }

(***************************************************************************)
(* C23.  ask_user_tool is registered but its invoke is never called: a     *)
(* decision naming ask_user_tool or 'Final Answer' is the last decision of *)
(* its run and the run ends without a tool invocation in that pass, so     *)
(* every invoked tool is a registered tool other than ask_user_tool.       *)
(***************************************************************************)
C23_AskUserNeverInvoked ==
  /\ \A n \in 1..Len(tool_calls) :
       /\ tool_calls[n].tool.name # ASK_USER_TOOL
       /\ tool_calls[n].tool.name \in RegistryNames \ { ASK_USER_TOOL }
  /\ pc \in { "invoke", "record" } =>
       action_obj.tool \notin { ASK_USER_TOOL, FINAL_ANSWER_TOOL }
  /\ \A j \in 1..Len(decisions) :
       decisions[j].tool \in { ASK_USER_TOOL, FINAL_ANSWER_TOOL } =>
         /\ j = Len(decisions)
         /\ pc \in { "dispatch", "done" }
         /\ CallsIn(j - 1) = {}
         /\ Len(observed) = j - 1

C23_Witness ==
  /\ pc = "done"
  /\ outcome = "AWAITING_USER"
  /\ ASK_USER_TOOL \in DOMAIN tool_map
  /\ Len(tool_calls) = 2
  /\ tool_map[ASK_USER_TOOL] \in { tools[k] : k \in 1..Len(tools) }

(***************************************************************************)
(* C24.  At every point of a run the number of completion calls made so    *)
(* far minus the number of trace entries is 0 or 1.  When the run has      *)
(* returned the difference is 1 for the final-answer, ask-user and         *)
(* engine-error outcomes and 0 for the max-iterations outcome.  The number *)
(* of tool invocations never exceeds the number of trace entries plus 1.   *)
(***************************************************************************)
C24_CallsVersusEntries ==
  LET entries == NumEntries(intermediate_steps_str)
  IN /\ llm_calls - entries \in { 0, 1 }
     /\ (pc = "done" /\ outcome \in { "FINAL_ANSWER", "AWAITING_USER", "ENGINE_ERROR" })
          => llm_calls - entries = 1
     /\ (pc = "done" /\ outcome = "MAX_ITERS") => llm_calls - entries = 0
     /\ Len(tool_calls) <= entries + 1

C24_Witness ==
  /\ pc = "record"
  /\ NumEntries(intermediate_steps_str) = 2
  /\ Len(tool_calls) = 3
  /\ llm_calls = 3

(***************************************************************************)
(* C25.  Under SessionSpec: in a UI session the prior turns a run receives *)
(* are the (query, response) pairs of the runs before it, in order.  The   *)
(* user's query is appended to messages before the run; after the run, in  *)
(* every outcome, the response is appended to messages and one pair to     *)
(* chat_history, so that between turns messages is twice as long as        *)
(* chat_history and holds the same texts in the same order.                *)
(***************************************************************************)
C25_SessionHistory ==
  /\ [](/\ pc = "idle" => Len(messages) = 2 * Len(chat_history)
        /\ pc # "idle" =>
             /\ Len(messages) = 2 * Len(chat_history) + 1
             /\ messages[Len(messages)] = [role |-> "user", content |-> StrV(user_query)]
        /\ \A k \in 1..Len(chat_history) :
             /\ messages[2 * k - 1].role = "user"
             /\ messages[2 * k].role = "assistant"
             /\ chat_history[k] = <<messages[2 * k - 1].content, messages[2 * k].content>>)
  /\ [][/\ pc = "done" =>
             /\ chat_history' = chat_history \o << <<StrV(user_query), result>> >>
             /\ messages' = messages \o << [role |-> "assistant", content |-> result] >>
             /\ pc' = "idle"
        /\ pc = "idle" =>
             /\ chat_history' = chat_history
             /\ Len(messages') = Len(messages) + 1
             /\ pc' = "start"
        /\ pc \notin { "done", "idle" } =>
             (chat_history' = chat_history /\ messages' = messages)]_vars

C25_Witness ==
  /\ pc = "request"
  /\ Len(chat_history) = 1
  /\ chat_history[1] = << StrV(<<"2+2?">>), StrV(AskUserMessage(StrV(<<"which?">>))) >>
  /\ Contains(prompt, <<"\nAssistant: ">> \o AskUserMessage(StrV(<<"which?">>)))

(***************************************************************************)
(* C26.  Under ApiSpec: the handler of an /api/v1 endpoint of the two      *)
(* servers runs only for a request whose X-API-Key header equals the       *)
(* configured MASTER_API_KEY, and a request without the header never       *)
(* reaches a handler and is answered 401, also when MASTER_API_KEY is not  *)
(* set.                                                                    *)
(***************************************************************************)
C26_ApiKeyRequired ==
  /\ \A h \in handled :
       h.endpoint.secured => (h.api_key = master_api_key /\ h.api_key # NoneV)
  /\ (/\ http_request.kind = "request"
      /\ http_request.endpoint.secured
      /\ http_request.api_key = NoneV
      /\ http_request.stage # "security") =>
       (http_request.stage = "done" /\ http_response.status_code = 401)

(***************************************************************************)
(* C30.  Under ApiSpec: the create-content endpoint answers with status    *)
(* COMPLETED or FAILED.  When the crew run fails inside                    *)
(* handle_creation_logic the response is FAILED with an empty              *)
(* draft_content and the error in error_message, and a COMPLETED response  *)
(* carries the draft of a successful crew run.                             *)
(***************************************************************************)
C30_CreationFailureIsFailed ==
  (/\ http_request.kind = "request"
   /\ http_request.endpoint.path = CREATE_CONTENT
   /\ http_request.stage = "done"
   /\ http_response.kind = "content") =>
    /\ http_response.status \in { "COMPLETED", "FAILED" }
    /\ http_request.crew = "raises" =>
         /\ http_response.status = "FAILED"
         /\ http_response.draft_content = StrV(<<>>)
         /\ http_response.error_message # NoneV
    /\ http_response.status = "COMPLETED" =>
         (http_request.crew = "draft" /\ http_response.draft_content = CrewDraft)

(***************************************************************************)
(* C27.  Under StorageSpec: update_research_material and                   *)
(* delete_research_material called with an id that is not in               *)
(* materials_store return an error and leave materials_store and the       *)
(* materials file as they are.  Once an id has been deleted, every later   *)
(* get, update or delete of it in the same session reports not-found, and  *)
(* the id is never in materials_store again.                               *)
(***************************************************************************)
C27_MissingIdIsError ==
  /\ [](deleted \cap DOMAIN materials_store = {})
  /\ [][/\ (/\ disk' = disk
            /\ storage_reply'.op \in { "update", "delete" }
            /\ storage_reply'.id \notin DOMAIN materials_store) =>
             /\ storage_reply'.error
             /\ storage_reply'.text = NotFoundText(storage_reply'.id)
             /\ materials_store' = materials_store
             /\ materials_file' = materials_file
        /\ (/\ disk' = disk
            /\ storage_reply'.op \in { "get", "update", "delete" }
            /\ storage_reply'.id \in deleted) =>
             /\ storage_reply'.error
             /\ storage_reply'.id \notin DOMAIN materials_store']_vars

C27_Witness ==
  /\ deleted = { 1 }
  /\ uuids = 1
  /\ storage_reply = StorageReply("update", 1, TRUE, NotFoundText(1))
  /\ materials_file.kind = "json"
  /\ materials_file.data = << >>

(***************************************************************************)
(* C28.  Under StorageSpec: after any sequence of create, update and       *)
(* delete operations the materials file holds exactly materials_store      *)
(* (same ids, same field values), so that a restart that reloads the file  *)
(* finds the state the last operation left, also when a write to the file  *)
(* failed.                                                                 *)
(***************************************************************************)
C28_FileEqualsStore ==
  load_materials(materials_file) = materials_store

(***************************************************************************)
(* C29.  Under A2ASpec: both executors answer every request with a task    *)
(* whose state is 'completed' or 'failed'.  A request with an empty        *)
(* message is 'failed'.  A request with a non-empty message that names a   *)
(* skill the agent does not support ('research' for the research agent,    *)
(* 'writing' and 'revision' for the writing agent) is answered with a      *)
(* 'failed' unsupported-skill task, with or without a taskId.              *)
(***************************************************************************)
SupportedSkills(agent) ==
  IF agent = "research" THEN { "research" } ELSE { "writing", "revision" }

C29_UnsupportedSkillFails ==
  (a2a_request.kind = "request" /\ a2a_reply # NoResponse) =>
    /\ a2a_reply.kind = "task"
    /\ a2a_reply.state \in { "completed", "failed" }
    /\ (~MessageRaises(a2a_request.message) /\ MessageText(a2a_request.message) = <<>>)
         => a2a_reply.state = "failed"
    /\ (/\ ~MessageRaises(a2a_request.message)
        /\ MessageText(a2a_request.message) # <<>>
        /\ a2a_request.skill # ""
        /\ a2a_request.skill \notin SupportedSkills(a2a_request.agent)) =>
         /\ a2a_reply.state = "failed"
         /\ a2a_reply.message = <<"unsupported skill: ", a2a_request.skill>>

====
